---- MODULE Spec2Model ----
(***************************************************************************)
(* Model of run.py (aur-makepkg): the package registry pkg_dict, the       *)
(* recursive resolution get_package_recursive, the recursive build walk    *)
(* build_package_recursive and the main loop that drives them.             *)
(*                                                                         *)
(* The Python call stack is the variable stack (one frame per active call  *)
(* of get_package_recursive / build_package_recursive); objects live in    *)
(* heap and are referred to by their index, so that two keys of pkg_dict   *)
(* holding the same object is distinguishable from two equal copies.       *)
(* Everything the program reads from outside (PKGBUILD contents, the       *)
(* official repositories, the AUR, the pacman database, the package cache, *)
(* the return codes of makepkg and pacman) is the environment: recipes are *)
(* fixed by the world chosen in Init, return codes are chosen when the     *)
(* command runs.                                                           *)
(***************************************************************************)
EXTENDS Integers, Sequences, FiniteSets, TLC

\* ------------------------------------------------------------- bounds
\* number of package names on the command line (nargs='+': at least one)
MaxTargets == 2
\* depth of the Python call stack at which RecursionError is raised
MaxDepth == 7

\* ---------------------------------------------------------- constants
None == "None"
PacmanPackage == "PacmanPackage"
PackageSource == "PackageSource"

\* PackageRepository
REPO_CORE == "core"
REPO_AUR == "aur"
REPO_LOCAL == "local"

\* PackageBase.cache_available
CacheNotAvailable == 0
CacheDifferentVersion == 1
CacheSameVersion == 2
CacheStates == {CacheNotAvailable, CacheDifferentVersion, CacheSameVersion}

\* PackageBase.installation_status
InstallFailed == -1
NotInstalled == 0
IsInstalled == 1
DifferentVersionInstalled == 2
SuccessfullyInstalled == 3

\* PackageSource.build_status
NotYetBuild == 0
SuccessfullyBuild == 1
SkippedBuild == 2
FailedToBuild == 3
MakeDependencyFailed == 4

\* values of --rebuild the model runs with (type=int: any integer is accepted)
RebuildValues == {0, 1, 2, 3}

\* ------------------------------------------------- environment: worlds
\* What the environment answers for one package name:
\*   repo        where get_package_recursive finds the name
\*   pkgname     pkgbase (or pkgname) of the PKGBUILD found for the name
\*   split       pkgname array of a split package (<<>>: no pkgbase)
\*   depends, makedepends   after _get_dependencies_from_alias
\*   faults      how the constructor can end: "none", or an exception raised
\*               "early" (before the PKGBUILD's name is read: no such AUR
\*               package, no PKGBUILD), at "arch" (name read, architecture not
\*               supported or a mandatory variable missing) or "late" (after
\*               depends/makedepends were read: _check_if_cache_is_available)
\*   installed   what get_installation_status can find (0, 1, 2)
Recipe(repo, pkgname, split, depends, makedepends, faults, installed) ==
    [repo |-> repo, pkgname |-> pkgname, split |-> split, depends |-> depends,
     makedepends |-> makedepends, faults |-> faults, installed |-> installed]

Official(name, faults, installed) ==
    Recipe(REPO_CORE, name, <<>>, <<>>, <<>>, faults, installed)

\* a -> b -> c: a three-level chain of sources, the leaf may fail to parse
WorldChain ==
    [roots |-> {"a", "b"},
     recipes |->
        [n \in {"a", "b", "c"} |->
            CASE n = "a" -> Recipe(REPO_LOCAL, "a", <<>>, <<"b">>, <<>>, {"none"}, {0})
              [] n = "b" -> Recipe(REPO_AUR, "b", <<>>, <<>>, <<"c">>, {"none"}, {0})
              [] n = "c" -> Recipe(REPO_LOCAL, "c", <<>>, <<>>, <<>>, {"none", "early"}, {0})]]

\* a -> {b, c}, b -> c: c is reached by two paths
WorldDiamond ==
    [roots |-> {"a", "b"},
     recipes |->
        [n \in {"a", "b", "c"} |->
            CASE n = "a" -> Recipe(REPO_AUR, "a", <<>>, <<"b", "c">>, <<>>, {"none"}, {0})
              [] n = "b" -> Recipe(REPO_LOCAL, "b", <<>>, <<"c">>, <<>>, {"none"}, {0})
              [] n = "c" -> Recipe(REPO_AUR, "c", <<>>, <<>>, <<>>, {"none"}, {0})]]

\* sources with dependencies in the official repositories
WorldPacman ==
    [roots |-> {"a", "b"},
     recipes |->
        [n \in {"a", "b", "p", "q"} |->
            CASE n = "a" -> Recipe(REPO_LOCAL, "a", <<>>, <<"p">>, <<"q">>, {"none"}, {0})
              [] n = "b" -> Recipe(REPO_AUR, "b", <<>>, <<>>, <<"p">>, {"none"}, {0})
              [] n = "p" -> Official("p", {"none"}, {0, 1, 2})
              [] n = "q" -> Official("q", {"none", "early"}, {0})]]

\* a split package foo (pkgbase foo, pkgname (foo-a foo-b)); the AUR answers
\* a request for foo-a with the source of its package base
WorldSplit ==
    [roots |-> {"a", "foo-a"},
     recipes |->
        [n \in {"a", "foo", "foo-a"} |->
            CASE n = "a" -> Recipe(REPO_LOCAL, "a", <<>>, <<"foo">>, <<"foo-a">>, {"none"}, {0})
              [] n = "foo" -> Recipe(REPO_AUR, "foo", <<"foo-a", "foo-b">>, <<>>, <<>>, {"none"}, {0})
              [] n = "foo-a" -> Recipe(REPO_AUR, "foo", <<"foo-a", "foo-b">>, <<>>, <<>>, {"none", "arch"}, {0})]]

\* two recipes naming each other
WorldCycle ==
    [roots |-> {"x"},
     recipes |->
        [n \in {"x", "y"} |->
            CASE n = "x" -> Recipe(REPO_LOCAL, "x", <<>>, <<"y">>, <<>>, {"none"}, {0})
              [] n = "y" -> Recipe(REPO_LOCAL, "y", <<>>, <<>>, <<"x">>, {"none"}, {0})]]

\* bar needs the local source bar-tool to build; l fails after its depends
\* were read
WorldTool ==
    [roots |-> {"bar", "l"},
     recipes |->
        [n \in {"bar", "bar-tool", "l", "z"} |->
            CASE n = "bar" -> Recipe(REPO_LOCAL, "bar", <<>>, <<>>, <<"bar-tool">>, {"none"}, {0})
              [] n = "bar-tool" -> Recipe(REPO_LOCAL, "bar-tool", <<>>, <<>>, <<>>, {"none"}, {0, 1, 2})
              [] n = "l" -> Recipe(REPO_AUR, "l", <<>>, <<"z">>, <<>>, {"late"}, {0})
              [] n = "z" -> Recipe(REPO_AUR, "z", <<>>, <<>>, <<>>, {"early"}, {0})]]

\* a -> {b, c}: two sibling subtrees, b needs q to build, c depends on p
WorldSiblings ==
    [roots |-> {"a"},
     recipes |->
        [n \in {"a", "b", "c", "p", "q"} |->
            CASE n = "a" -> Recipe(REPO_AUR, "a", <<>>, <<"b", "c">>, <<>>, {"none"}, {0})
              [] n = "b" -> Recipe(REPO_AUR, "b", <<>>, <<>>, <<"q">>, {"none"}, {0})
              [] n = "c" -> Recipe(REPO_AUR, "c", <<>>, <<"p">>, <<>>, {"none"}, {0})
              [] n = "p" -> Official("p", {"none"}, {0})
              [] n = "q" -> Official("q", {"none"}, {0})]]

Worlds == <<WorldChain, WorldDiamond, WorldPacman, WorldSplit, WorldCycle, WorldTool,
            WorldSiblings>>

\* the command lines of a world: 1..MaxTargets of its root names
RECURSIVE SeqsUpTo(_, _)
SeqsUpTo(S, n) ==
    IF n = 0 THEN {<<>>}
    ELSE LET shorter == SeqsUpTo(S, n - 1)
         IN  shorter \cup {Append(s, x) : s \in {q \in shorter : Len(q) = n - 1}, x \in S}

TargetLists(w) == {s \in SeqsUpTo(Worlds[w].roots, MaxTargets) : Len(s) >= 1}

VARIABLES
    world,                     \* index of the environment in Worlds
    rebuild,                   \* args.rebuild
    install_all_dependencies,  \* args.install_all_dependencies
    build_package_names,       \* args.build_package_names
    heap,                      \* the package objects, by identity
    pkg_dict,                  \* name -> index in heap
    stack,                     \* the active calls, innermost last
    pc,                        \* where main is
    target,                    \* index of main's loop in build_package_names
    exit_code,                 \* None until the process exits
    trace,                     \* history: the commands run, in order
    created,                   \* history: per object, the call that made it
    resolved,                  \* history: the calls of get_package_recursive that returned
    processed,                 \* history: objects whose build walk ran to its end
    report                     \* what print_build_log printed, one entry per call

vars == <<world, rebuild, install_all_dependencies, build_package_names, heap,
          pkg_dict, stack, pc, target, exit_code, trace, created, resolved,
          processed, report>>

args == <<world, rebuild, install_all_dependencies, build_package_names>>

Recipes == Worlds[world].recipes

\* ------------------------------------------------------------- objects
\* PackageBase.__init__ and the class attributes
NewPackage(kind, name) ==
    [kind |-> kind, name |-> name, repository |-> None,
     dependencies |-> <<>>, make_dependencies |-> <<>>,
     split_package_names |-> <<>>,
     cache_available |-> CacheNotAvailable,
     is_make_dependency |-> FALSE,
     installation_status |-> NotInstalled,
     error_info |-> None,
     explicit_build |-> FALSE,
     build_status |-> NotYetBuild]

\* PacmanPackage.__init__: fault "early" is an exception of _get_package_info
NewPacmanPackage(name, fault, installed) ==
    LET pkg == NewPackage(PacmanPackage, name)
    IN  IF fault = "none"
        THEN [pkg EXCEPT !.repository = REPO_CORE, !.installation_status = installed]
        ELSE [pkg EXCEPT !.error_info = "Exception(" \o fault \o ")"]

\* PackageSource.__init__ for the source found under `name`
NewPackageSource(name, fault, cache, installed) ==
    LET r == Recipes[name]
        pkg == [NewPackage(PackageSource, name) EXCEPT !.repository = r.repo]
        named == [pkg EXCEPT !.name = r.pkgname,
                             !.split_package_names = r.split]
        parsed == [named EXCEPT !.dependencies = r.depends,
                                !.make_dependencies = r.makedepends,
                                !.repository = REPO_LOCAL]
    IN  CASE fault = "early" -> [pkg EXCEPT !.error_info = "NoSuchPackageError"]
          [] fault = "arch" -> [named EXCEPT !.error_info = "InvalidPackageSourceError"]
          [] fault = "late" -> [parsed EXCEPT !.error_info = "Exception(late)"]
          [] OTHER -> [parsed EXCEPT !.cache_available = cache,
                                     !.installation_status = installed]

\* mutant of get_all_dependencies: the make dependencies are left out
get_all_dependenciesRuntimeOnly(pkg) == pkg.dependencies

\* PackageSource.get_all_dependencies
get_all_dependencies(pkg) == pkg.dependencies \o pkg.make_dependencies

Keys == DOMAIN pkg_dict
Pkg(name) == heap[pkg_dict[name]]

\* ---------------------------------------------------------------- frames
Frame(fn, pkg_name, explicit_build, is_make_dependency) ==
    [fn |-> fn, pkg_name |-> pkg_name, at |-> "enter",
     explicit_build |-> explicit_build,
     is_make_dependency |-> is_make_dependency,
     obj |-> 0, i |-> 1, dependency_changed |-> FALSE]

Top == stack[Len(stack)]
Pop == SubSeq(stack, 1, Len(stack) - 1)
SetTop(f) == [stack EXCEPT ![Len(stack)] = f]
Running == stack # <<>>

Init ==
    /\ world \in 1..Len(Worlds)
    /\ rebuild \in RebuildValues
    /\ install_all_dependencies \in BOOLEAN
    /\ build_package_names \in TargetLists(world)
    /\ heap = <<>>
    /\ pkg_dict = <<>>
    /\ stack = <<>>
    /\ pc = "collect"
    /\ target = 1
    /\ exit_code = None
    /\ trace = <<>>
    /\ created = <<>>
    /\ resolved = <<>>
    /\ processed = {}
    /\ report = <<>>

\* ----------------------------------------------------------- exceptions
\* An exception no frame catches unwinds to the try at the bottom of the
\* script (lines 1024-1029): printError, exit(1).
Raise(exception) ==
    /\ stack' = <<>>
    /\ pc' = "exit"
    /\ exit_code' = 1
    /\ trace' = Append(trace, <<"raise", exception>>)

\* A call of one of the two recursive functions; Python raises RecursionError
\* when the stack is full.
Call(caller, callee) ==
    IF Len(stack) >= MaxDepth
    THEN /\ Raise("RecursionError")
         /\ UNCHANGED <<heap, pkg_dict, created, resolved, processed, target>>
    ELSE /\ stack' = Append(SetTop(caller), callee)
         /\ UNCHANGED <<heap, pkg_dict, created, resolved, processed, target,
                        pc, exit_code, trace>>

\* ------------------------------------------------ get_package_recursive
\* lines 655-656 (local source) and 681 (AUR source): the value explicit_build
\* ends with
ExplicitBuildOf(repo, explicit_build, is_make_dependency) ==
    IF repo = REPO_LOCAL THEN is_make_dependency ELSE explicit_build

\* mutant of AlreadyInDict: the test is missing
AlreadyInDictNever(pkg_name) == FALSE

\* line 638: the memoization test
AlreadyInDict(pkg_name) == pkg_name \in Keys

\* mutant of Registered: the source is not entered into pkg_dict before its
\* dependencies are resolved
RegisteredNowhere(pkg_name, pkg, id) == pkg_dict

\* lines 657-659 / 682-684: the source is entered under the requested name
\* and under its own, before the loops over its dependencies
Registered(pkg_name, pkg, id) == (pkg.name :> id) @@ (pkg_name :> id) @@ pkg_dict

\* history: the call of get_package_recursive that made an object, with the
\* caller it came from: the object whose dependency loop made the call (0 for
\* main) and the list the name was read from
CreatedBy(f) ==
    LET caller == stack[Len(stack) - 1]
    IN  IF Len(stack) = 1
        THEN [pkg_name |-> f.pkg_name, explicit_build |-> f.explicit_build,
              is_make_dependency |-> f.is_make_dependency,
              parent |-> 0, edge |-> "command line"]
        ELSE [pkg_name |-> f.pkg_name, explicit_build |-> f.explicit_build,
              is_make_dependency |-> f.is_make_dependency,
              parent |-> caller.obj,
              edge |-> IF caller.i - 1 <= Len(heap[caller.obj].dependencies)
                       THEN "dependencies" ELSE "make_dependencies"]

\* lines 637-660 / 676-685: everything before the loops over the dependencies
GetEnter ==
    /\ Running /\ Top.fn = "get" /\ Top.at = "enter"
    /\ LET f == Top
           r == Recipes[f.pkg_name]
           id == Len(heap) + 1
       IN  IF AlreadyInDict(f.pkg_name)
           THEN /\ stack' = Pop
                /\ resolved' = Append(resolved, f)
                /\ UNCHANGED <<heap, pkg_dict, created>>
           ELSE \E fault \in r.faults, cache \in CacheStates, installed \in r.installed :
                IF r.repo = REPO_CORE
                THEN LET pcm_pkg == [NewPacmanPackage(f.pkg_name, fault, installed)
                                        EXCEPT !.is_make_dependency = f.is_make_dependency]
                     IN  /\ heap' = Append(heap, pcm_pkg)
                         /\ pkg_dict' = (f.pkg_name :> id) @@ pkg_dict
                         /\ created' = Append(created, CreatedBy(f))
                         /\ stack' = Pop
                         /\ resolved' = Append(resolved, f)
                ELSE LET new == NewPackageSource(f.pkg_name, fault, cache, installed)
                         pkg == [new EXCEPT !.explicit_build =
                                    ExplicitBuildOf(r.repo, f.explicit_build,
                                                    f.is_make_dependency)]
                     IN  IF new.name \in Keys
                         THEN /\ stack' = Pop
                              /\ resolved' = Append(resolved, f)
                              /\ UNCHANGED <<heap, pkg_dict, created>>
                         ELSE /\ heap' = Append(heap, pkg)
                              /\ pkg_dict' = Registered(f.pkg_name, pkg, id)
                              /\ created' = Append(created, CreatedBy(f))
                              /\ IF pkg.error_info # None
                                 THEN /\ stack' = Pop
                                      /\ resolved' = Append(resolved, f)
                                 ELSE /\ stack' = SetTop([f EXCEPT !.at = "deps", !.obj = id])
                                      /\ UNCHANGED resolved
    /\ UNCHANGED <<args, report, pc, target, exit_code, trace, processed>>

\* lines 661-674 / 686-699: the next recursive call of the two loops, or the
\* return after the last
GetDependency ==
    /\ Running /\ Top.fn = "get" /\ Top.at = "deps"
    /\ LET f == Top
           pkg == heap[f.obj]
           names == get_all_dependencies(pkg)
       IN  IF f.i > Len(names)
           THEN /\ stack' = Pop
                /\ resolved' = Append(resolved, f)
                /\ UNCHANGED <<heap, pkg_dict, created, processed, target, pc,
                               exit_code, trace>>
           ELSE /\ Call([f EXCEPT !.i = f.i + 1],
                        Frame("get", names[f.i], FALSE,
                              IF f.i <= Len(pkg.dependencies)
                              THEN f.is_make_dependency ELSE TRUE))
    /\ UNCHANGED <<args, report>>

\* ---------------------------------------------------- install, makepkg
Min(a, b) == IF a < b THEN a ELSE b

\* mutant of PacmanInstallRuns: only an install of this run is remembered
PacmanInstallRunsUnlessJustInstalled(pkg) ==
    pkg.installation_status # SuccessfullyInstalled

\* PacmanPackage.install, line 231: is pacman -S run at all
PacmanInstallRuns(pkg) ==
    ~(pkg.installation_status = IsInstalled
      \/ pkg.installation_status = SuccessfullyInstalled)

\* PacmanPackage.install, lines 229-245; ok: pacman -S returned 0
PacmanInstall(pkg, ok) ==
    IF PacmanInstallRuns(pkg)
    THEN IF ~ok
         THEN [pkg EXCEPT !.installation_status = InstallFailed,
                          !.error_info = "Failed to install package"]
         ELSE [pkg EXCEPT !.installation_status = SuccessfullyInstalled]
    ELSE pkg

\* PackageSource.install, lines 541-544: the names pacman -U is run for
InstallNames(pkg) ==
    IF pkg.split_package_names # <<>> THEN pkg.split_package_names ELSE <<pkg.name>>

\* mutant of SourceInstallRuns: build_status is not looked at
SourceInstallRunsUnguarded(pkg) ==
    ~(pkg.installation_status = IsInstalled
      \/ pkg.installation_status = SuccessfullyInstalled)

\* PackageSource.install, lines 539-540: the guard
SourceInstallRuns(pkg) ==
    /\ ~(pkg.installation_status = IsInstalled
         \/ pkg.installation_status = SuccessfullyInstalled)
    /\ (pkg.build_status = SuccessfullyBuild \/ pkg.build_status = SkippedBuild)

\* PackageSource.install, lines 537-560; successes: how many pacman -U
\* commands return 0 before one fails (Len(InstallNames(pkg)): none fails)
SourceInstall(pkg, successes) ==
    IF SourceInstallRuns(pkg)
    THEN IF successes < Len(InstallNames(pkg))
         THEN [pkg EXCEPT !.installation_status = InstallFailed,
                          !.error_info = "Failed to install package"]
         ELSE [pkg EXCEPT !.installation_status = SuccessfullyInstalled]
    ELSE pkg

\* the pacman -U commands that call of install runs, in order
SourceInstallCommands(id, pkg, successes) ==
    IF SourceInstallRuns(pkg)
    THEN [j \in 1..Min(successes + 1, Len(InstallNames(pkg))) |->
              <<"pacman -U", id, InstallNames(pkg)[j]>>]
    ELSE <<>>

\* PackageSource.makepkg, lines 494-516, for the object as it is when makepkg
\* is called; ok: makepkg returned 0. The loop over the built package files
\* calls install() for a make dependency.
Makepkg(pkg, ok, successes) ==
    IF ~ok
    THEN [pkg EXCEPT !.error_info = "Failed to build package"]
    ELSE IF pkg.is_make_dependency THEN SourceInstall(pkg, successes) ELSE pkg

MakepkgCommands(id, pkg, ok, successes) ==
    <<<<"makepkg", id>>>> \o
    (IF ok /\ pkg.is_make_dependency
     THEN SourceInstallCommands(id, pkg, successes) ELSE <<>>)

\* ---------------------------------------------- build_package_recursive
\* mutants of AlreadyProcessed: the test is missing; the test is for one status
AlreadyProcessedNever(pkg) == FALSE
AlreadyProcessedOnlySkipped(pkg) ==
    pkg.kind = PackageSource /\ pkg.build_status = SkippedBuild

\* mutant of HasError: the build walk does not look at error_info
HasErrorIgnored(pkg) == FALSE

\* lines 724-728: the two short-circuits
HasError(pkg) == pkg.error_info # None
AlreadyProcessed(pkg) == pkg.kind = PackageSource /\ pkg.build_status # NotYetBuild

\* lines 721-737: the short-circuits and the pacman package
BuildEnter ==
    /\ Running /\ Top.fn = "build" /\ Top.at = "enter"
    /\ LET f == Top
           id == pkg_dict[f.pkg_name]
           pkg == heap[id]
       IN  IF f.pkg_name \notin Keys
           THEN /\ Raise("KeyError")
                /\ UNCHANGED heap
           ELSE IF HasError(pkg) \/ AlreadyProcessed(pkg)
           THEN /\ stack' = Pop
                /\ trace' = Append(trace, <<"visit", id>>)
                /\ UNCHANGED <<heap, pc, exit_code>>
           ELSE IF pkg.kind = PacmanPackage
           THEN /\ stack' = Pop
                /\ UNCHANGED <<pc, exit_code>>
                /\ IF pkg.installation_status < 0
                      \/ pkg.installation_status = SuccessfullyInstalled
                   THEN /\ trace' = Append(trace, <<"visit", id>>)
                        /\ UNCHANGED heap
                   ELSE IF (pkg.is_make_dependency \/ install_all_dependencies)
                           /\ PacmanInstallRuns(pkg)
                   THEN \E ok \in BOOLEAN :
                           /\ heap' = [heap EXCEPT ![id] = PacmanInstall(pkg, ok)]
                           /\ trace' = trace \o <<<<"visit", id>>, <<"pacman -S", id>>>>
                   ELSE /\ trace' = Append(trace, <<"visit", id>>)
                        /\ UNCHANGED heap
           ELSE /\ stack' = SetTop([f EXCEPT !.at = "deps", !.obj = id,
                                             !.dependency_changed = FALSE])
                /\ trace' = Append(trace, <<"visit", id>>)
                /\ UNCHANGED <<heap, pc, exit_code>>
    /\ UNCHANGED <<args, report, pkg_dict, target, created, resolved, processed>>

\* lines 740-742: the lookup of the next dependency and the recursive call
BuildDependency ==
    /\ Running /\ Top.fn = "build" /\ Top.at = "deps"
    /\ Top.i <= Len(get_all_dependencies(heap[Top.obj]))
    /\ LET f == Top
           dependency == get_all_dependencies(heap[f.obj])[f.i]
       IN  IF dependency \notin Keys
           THEN /\ Raise("KeyError")
                /\ UNCHANGED <<heap, pkg_dict, created, resolved, processed, target>>
           ELSE Call([f EXCEPT !.at = "check"],
                     Frame("build", dependency, FALSE, FALSE))
    /\ UNCHANGED <<args, report>>

\* mutant of DependencyFailed: build_status is read instead of error_info
DependencyFailedByStatus(pkg_dependency) ==
    pkg_dependency.kind = PackageSource
    /\ pkg_dependency.build_status = FailedToBuild

\* line 743: does the dependency fail the package
DependencyFailed(pkg_dependency) == pkg_dependency.error_info # None

\* mutant of DependencyRebuilt: the wrong build_status
DependencyRebuiltSkipped(pkg_dependency) ==
    pkg_dependency.kind = PackageSource
    /\ pkg_dependency.build_status = SkippedBuild

\* lines 747-749: has the dependency been rebuilt
DependencyRebuilt(pkg_dependency) ==
    pkg_dependency.kind = PackageSource
    /\ pkg_dependency.build_status = SuccessfullyBuild

\* lines 743-749: after the recursive call returned
BuildCheck ==
    /\ Running /\ Top.fn = "build" /\ Top.at = "check"
    /\ LET f == Top
           pkg == heap[f.obj]
           pkg_dependency == Pkg(get_all_dependencies(pkg)[f.i])
       IN  IF DependencyFailed(pkg_dependency)
           THEN /\ heap' = [heap EXCEPT ![f.obj].build_status = MakeDependencyFailed]
                /\ stack' = Pop
                /\ processed' = processed \cup {f.obj}
           ELSE /\ stack' = SetTop([f EXCEPT
                        !.at = "deps", !.i = f.i + 1,
                        !.dependency_changed =
                            f.dependency_changed \/ DependencyRebuilt(pkg_dependency)])
                /\ UNCHANGED <<heap, processed>>
    /\ UNCHANGED <<args, report, pkg_dict, pc, target, exit_code, trace, created, resolved>>

\* mutant of RebuildDecision: <= for < in the test of --rebuild 0
RebuildDecisionOffByOne(pkg, dependency_changed) ==
    IF dependency_changed THEN "makepkg"
    ELSE IF rebuild = 0
         THEN IF pkg.cache_available <= CacheSameVersion THEN "makepkg" ELSE "skip"
    ELSE IF rebuild = 1
         THEN IF pkg.cache_available < CacheSameVersion \/ pkg.explicit_build
              THEN "makepkg" ELSE "skip"
    ELSE IF rebuild = 2 THEN "makepkg"
    ELSE "nothing"

\* lines 753-784: "makepkg", "skip", or "nothing" (no branch taken)
RebuildDecision(pkg, dependency_changed) ==
    IF dependency_changed THEN "makepkg"
    ELSE IF rebuild = 0
         THEN IF pkg.cache_available < CacheSameVersion THEN "makepkg" ELSE "skip"
    ELSE IF rebuild = 1
         THEN IF pkg.cache_available < CacheSameVersion \/ pkg.explicit_build
              THEN "makepkg" ELSE "skip"
    ELSE IF rebuild = 2 THEN "makepkg"
    ELSE "nothing"

\* lines 751-784: after the loop over the dependencies
BuildDecide ==
    /\ Running /\ Top.fn = "build" /\ Top.at = "deps"
    /\ Top.i > Len(get_all_dependencies(heap[Top.obj]))
    /\ LET f == Top
           id == f.obj
       IN  \E installed \in Recipes[heap[id].name].installed,
              ok \in BOOLEAN,
              successes \in 0..Len(InstallNames(heap[id])) :
           LET pkg == [heap[id] EXCEPT !.installation_status = installed]
               decision == RebuildDecision(pkg, f.dependency_changed)
               made == IF decision = "makepkg" THEN Makepkg(pkg, ok, successes) ELSE pkg
           IN  /\ heap' = [heap EXCEPT ![id] =
                    [made EXCEPT !.build_status =
                        CASE decision = "makepkg" ->
                                IF ok THEN SuccessfullyBuild ELSE FailedToBuild
                          [] decision = "skip" -> SkippedBuild
                          [] OTHER -> made.build_status]]
               /\ trace' = trace \o (IF decision = "makepkg"
                                     THEN MakepkgCommands(id, pkg, ok, successes)
                                     ELSE <<>>)
               /\ stack' = SetTop([f EXCEPT !.at = "install"])
    /\ UNCHANGED <<args, report, pkg_dict, pc, target, exit_code, created, resolved, processed>>

\* lines 786-788: the install of the package and the return
BuildInstall ==
    /\ Running /\ Top.fn = "build" /\ Top.at = "install"
    /\ LET id == Top.obj
           pkg == heap[id]
       IN  IF install_all_dependencies
           THEN \E successes \in 0..Len(InstallNames(pkg)) :
                   /\ heap' = [heap EXCEPT ![id] = SourceInstall(pkg, successes)]
                   /\ trace' = trace \o SourceInstallCommands(id, pkg, successes)
           ELSE UNCHANGED <<heap, trace>>
    /\ stack' = Pop
    /\ processed' = processed \cup {Top.obj}
    /\ UNCHANGED <<args, report, pkg_dict, pc, target, exit_code, created, resolved>>

\* ------------------------------------------------------------------ main
\* lines 1000-1007: the call of get_package_recursive for the next name
MainCollect ==
    /\ pc = "collect" /\ stack = <<>>
    /\ target <= Len(build_package_names)
    /\ stack' = <<Frame("get", build_package_names[target], TRUE, FALSE)>>
    /\ pc' = "build"
    /\ UNCHANGED <<args, report, heap, pkg_dict, target, exit_code, trace, created,
                   resolved, processed>>

\* lines 1009-1015: the build walk of the name just collected
MainBuild ==
    /\ pc = "build" /\ stack = <<>>
    /\ IF build_package_names[target] \in Keys
       THEN stack' = <<Frame("build", build_package_names[target], FALSE, FALSE)>>
       ELSE stack' = <<>>
    /\ pc' = "collect"
    /\ target' = target + 1
    /\ UNCHANGED <<args, report, heap, pkg_dict, exit_code, trace, created, resolved,
                   processed>>

\* ---------------------------------------------------------- the report
\* str(pkg.error_info)
Str(error_info) == IF error_info = None THEN "None" ELSE error_info

\* format_log: one line of the report. prefix is the tree drawing in front of
\* the name, as the sequence of its four-column pieces: "tee" for the
\* connector of an inner entry, "ell" for the connector of the last entry,
\* "bar" and "gap" for the continuation under each.
format_log(log_prefix, pkg, msg) ==
    [prefix |-> log_prefix, name |-> pkg.name, msg |-> msg]

\* print_build_log_recursive, lines 849-877: the line of one package and
\* the value of success after it; success is the value before it (for a
\* source with dependencies: the value its dependencies returned)
ReportLine(pkg, success, log_prefix) ==
    IF pkg.kind = PacmanPackage
    THEN CASE pkg.installation_status < 0 ->
                [success |-> FALSE,
                 log |-> <<format_log(log_prefix, pkg,
                              <<"Failed to install", Str(pkg.error_info)>>)>>]
           [] pkg.installation_status = 0 ->
                [success |-> success,
                 log |-> <<format_log(log_prefix, pkg, <<"Not installed">>)>>]
           [] pkg.installation_status = 1 ->
                [success |-> success,
                 log |-> <<format_log(log_prefix, pkg, <<"Skipped install">>)>>]
           [] pkg.installation_status = 3 ->
                [success |-> success,
                 log |-> <<format_log(log_prefix, pkg, <<"Successfully installed">>)>>]
           [] OTHER -> [success |-> success, log |-> <<>>]
    ELSE IF ~success
         THEN [success |-> FALSE,
               log |-> <<format_log(log_prefix, pkg,
                            <<"Dependency Failed", Str(pkg.error_info)>>)>>]
         ELSE IF pkg.error_info # None
         THEN [success |-> FALSE,
               log |-> <<format_log(log_prefix, pkg,
                            <<"Failed", Str(pkg.error_info)>>)>>]
         ELSE CASE pkg.build_status = 1 ->
                     [success |-> TRUE,
                      log |-> <<format_log(log_prefix, pkg, <<"Successfully build">>)>>]
                [] pkg.build_status = 2 ->
                     [success |-> TRUE,
                      log |-> <<format_log(log_prefix, pkg, <<"Skipped">>)>>]
                [] pkg.build_status = 3 ->
                     [success |-> FALSE,
                      log |-> <<format_log(log_prefix, pkg, <<"Failed">>)>>]
                [] pkg.build_status = 4 ->
                     [success |-> FALSE,
                      log |-> <<format_log(log_prefix, pkg, <<"Dependency Failed">>)>>]
                [] OTHER -> [success |-> TRUE, log |-> <<>>]

\* print_build_log_recursive at call depth `depth`; the result carries the
\* exception that ended it, if one did (KeyError of pkg_dict[pkg_name],
\* RecursionError). PrintLoop is its for loop from position pos on, st the
\* values of its local variables.
RECURSIVE print_build_log_recursive(_, _, _, _)
RECURSIVE PrintLoop(_, _, _, _, _, _)
PrintLoop(pkg_names, pos, prefix, is_root, depth, st) ==
    IF pos > Len(pkg_names) \/ st.exception # None
    THEN st
    ELSE IF pkg_names[pos] \notin Keys
    THEN [st EXCEPT !.exception = "KeyError"]
    ELSE
    LET pkg == Pkg(pkg_names[pos])
        anchor == Len(pkg_names) - (pos - 1)
        log_prefix == IF is_root THEN <<>>
                      ELSE IF anchor = 1 THEN Append(prefix, "ell")
                      ELSE st.log_prefix
        intermediate_prefix == IF is_root THEN <<>>
                               ELSE IF anchor = 1 THEN Append(prefix, "gap")
                               ELSE st.intermediate_prefix
        deps == get_all_dependencies(pkg)
        dep == IF pkg.kind = PackageSource /\ Len(deps) > 0
               THEN print_build_log_recursive(deps, intermediate_prefix, FALSE,
                                              depth + 1)
               ELSE [exception |-> None, success |-> st.success, log |-> <<>>]
        line == ReportLine(pkg, dep.success, log_prefix)
    IN  IF dep.exception # None
        THEN [st EXCEPT !.exception = dep.exception]
        ELSE PrintLoop(pkg_names, pos + 1, prefix, is_root, depth,
                       [exception |-> None,
                        success |-> line.success,
                        log |-> st.log \o line.log \o dep.log,
                        log_prefix |-> log_prefix,
                        intermediate_prefix |-> intermediate_prefix])

print_build_log_recursive(pkg_names, prefix, is_root, depth) ==
    IF depth > MaxDepth
    THEN [exception |-> "RecursionError", success |-> TRUE, log |-> <<>>]
    ELSE LET st == PrintLoop(pkg_names, 1, prefix, is_root, depth,
                             [exception |-> None, success |-> TRUE, log |-> <<>>,
                              log_prefix |-> Append(prefix, "tee"),
                              intermediate_prefix |-> Append(prefix, "bar")])
         IN  [exception |-> st.exception, success |-> st.success, log |-> st.log]

\* print_build_log: the lines printed for one name of the command line and
\* the colour they are printed in (printSuccessfull or printError)
print_build_log(pkg_name) ==
    LET r == print_build_log_recursive(<<pkg_name>>, <<>>, TRUE, 1)
    IN  [pkg_name |-> pkg_name, exception |-> r.exception,
         success |-> r.success, log |-> r.log]

\* lines 1017-1018: the loop over the names is over, the heading of the
\* report is printed
MainStatistics ==
    /\ pc = "collect" /\ stack = <<>>
    /\ target > Len(build_package_names)
    /\ pc' = "report"
    /\ target' = 1
    /\ trace' = Append(trace, <<"Build Statistics">>)
    /\ UNCHANGED <<args, report, heap, pkg_dict, stack, exit_code,
                   created, resolved, processed>>

\* lines 1019-1021: the report of the next name
MainReport ==
    /\ pc = "report" /\ target <= Len(build_package_names)
    /\ LET pkg_name == build_package_names[target]
       IN  IF pkg_name \notin Keys
           THEN UNCHANGED <<report, stack, pc, exit_code, trace>>
           ELSE LET r == print_build_log(pkg_name)
                IN  IF r.exception # None
                    THEN Raise(r.exception) /\ UNCHANGED report
                    ELSE /\ report' = Append(report, r)
                         /\ UNCHANGED <<stack, pc, exit_code, trace>>
    /\ target' = target + 1
    /\ UNCHANGED <<args, heap, pkg_dict, created, resolved, processed>>

\* mutant of ExitCode: the report decides
ExitCodeFromReport ==
    IF \A j \in 1..Len(report) : report[j].success THEN 0 ELSE 1

\* line 1026: exit(0)
ExitCode == 0

\* line 1026: main has returned
MainExit ==
    /\ pc = "report" /\ target > Len(build_package_names)
    /\ pc' = "exit"
    /\ exit_code' = ExitCode
    /\ UNCHANGED <<args, report, heap, pkg_dict, stack, target, trace, created,
                   resolved, processed>>

Next ==
    \/ MainCollect
    \/ GetEnter
    \/ GetDependency
    \/ MainBuild
    \/ BuildEnter
    \/ BuildDependency
    \/ BuildCheck
    \/ BuildDecide
    \/ BuildInstall
    \/ MainStatistics
    \/ MainReport
    \/ MainExit

Spec == Init /\ [][Next]_vars

\* ------------------------------------------------------------ properties
Objects == 1..Len(heap)
Range(seq) == {seq[j] : j \in 1..Len(seq)}
Count(event) == Cardinality({j \in 1..Len(trace) : trace[j] = event})
\* how often makepkg was run for an object, how often the build walk entered it
MakepkgRuns(id) == Count(<<"makepkg", id>>)
Visits(id) == Count(<<"visit", id>>)
IsSource(id) == heap[id].kind = PackageSource

\* the objects behind the names of dependencies + make_dependencies
DependencyObjects(id) ==
    {pkg_dict[n] : n \in Range(get_all_dependencies(heap[id])) \cap Keys}
SomeDependencyHasError(id) ==
    \E d \in DependencyObjects(id) : heap[d].error_info # None
SomeDependencyRebuilt(id) ==
    \E d \in DependencyObjects(id) :
        IsSource(d) /\ heap[d].build_status = SuccessfullyBuild

\* the objects reachable from id over one or more dependency edges
RECURSIVE ReachableFrom(_, _)
ReachableFrom(frontier, seen) ==
    LET next == UNION {DependencyObjects(d) : d \in frontier} \ seen
    IN  IF next = {} THEN seen ELSE ReachableFrom(next, seen \cup next)
Descendants(id) == ReachableFrom({id}, {})

\* C1: a source package whose build walk ran to its end while a direct
\* dependency carries an error has build_status 4 (make dependency failed),
\* and makepkg was never run for it.
C1_DependencyErrorFailsPackage ==
    \A id \in processed :
        SomeDependencyHasError(id) =>
            /\ heap[id].build_status = MakeDependencyFailed
            /\ MakepkgRuns(id) = 0

\* C1 witness: the walk of a package ended at a dependency that failed to
\* build, and the run went on after it
C1_Witness ==
    \E id \in processed :
        /\ heap[id].build_status = MakeDependencyFailed
        /\ \E d \in DependencyObjects(id) :
              heap[d].build_status = FailedToBuild /\ d \in processed
        /\ pc = "exit"

\* C2 (as claimed): every ancestor, direct or transitive, of a package that
\* carries an error ends with build_status 4 and makepkg is never run for it.
C2_AncestorsDependencyFailed ==
    \A id \in processed :
        (\E d \in Descendants(id) : heap[d].error_info # None) =>
            /\ heap[id].build_status = MakeDependencyFailed
            /\ MakepkgRuns(id) = 0

\* C3: a source package whose walk ran to its end, whose dependencies carry
\* no error and one of whose dependencies is a source with build_status 1
\* (built), had makepkg run for it, whatever --rebuild and cache_available.
C3_RebuiltDependencyForcesBuild ==
    \A id \in processed :
        (~SomeDependencyHasError(id) /\ SomeDependencyRebuilt(id)) =>
            MakepkgRuns(id) >= 1

\* C3 witness: --rebuild 0, the same version is in the cache, a dependency
\* was rebuilt, and makepkg ran
C3_Witness ==
    \E id \in processed :
        /\ rebuild = 0
        /\ heap[id].cache_available = CacheSameVersion
        /\ ~SomeDependencyHasError(id) /\ SomeDependencyRebuilt(id)
        /\ MakepkgRuns(id) = 1

\* the packages the rebuild policy alone decides
PolicyDecides(id) ==
    id \in processed /\ ~SomeDependencyHasError(id) /\ ~SomeDependencyRebuilt(id)

\* C4: with no rebuilt dependency and no dependency error, --rebuild 0 skips
\* a package whose version is in the cache (build_status 2, no makepkg) and runs
\* makepkg when another version or none is; --rebuild 2 runs makepkg always.
C4_RebuildPolicy0And2 ==
    \A id \in Objects :
        PolicyDecides(id) =>
            /\ (rebuild = 0 /\ heap[id].cache_available = CacheSameVersion) =>
                    (heap[id].build_status = SkippedBuild /\ MakepkgRuns(id) = 0)
            /\ (rebuild = 0 /\ heap[id].cache_available # CacheSameVersion) =>
                    MakepkgRuns(id) >= 1
            /\ rebuild = 2 => MakepkgRuns(id) >= 1

\* C4 witness: under --rebuild 0 one package was skipped for its cached
\* version and another, with a different version cached, was built
C4_Witness ==
    /\ rebuild = 0
    /\ \E i, j \in Objects :
        /\ PolicyDecides(i) /\ PolicyDecides(j)
        /\ heap[i].cache_available = CacheSameVersion
        /\ heap[i].build_status = SkippedBuild
        /\ heap[j].cache_available = CacheDifferentVersion
        /\ heap[j].explicit_build = FALSE
        /\ MakepkgRuns(j) = 1

\* C5 (as claimed): under --rebuild 1, with no rebuilt dependency and no
\* dependency error, a package named on the command line is built whatever its
\* cache_available, be it a local or an AUR source, and a package that was not
\* named on the command line is skipped when its version is in the cache.
C5_RebuildPolicy1 ==
    \A id \in Objects :
        (PolicyDecides(id) /\ rebuild = 1) =>
            /\ created[id].explicit_build => MakepkgRuns(id) >= 1
            /\ (~created[id].explicit_build
                /\ heap[id].cache_available = CacheSameVersion) =>
                    (heap[id].build_status = SkippedBuild /\ MakepkgRuns(id) = 0)

\* C6: there is never more than one object for a package name, and makepkg
\* is run at most once for a package in the whole run.
C6_OneNodeOneBuild ==
    /\ \A i, j \in Objects : heap[i].name = heap[j].name => i = j
    /\ \A id \in Objects : MakepkgRuns(id) <= 1

\* C6 witness: the package c of the diamond was reached over two paths, by
\* resolution and by the build walk, and was built once
C6_Witness ==
    /\ Worlds[world] = WorldDiamond
    /\ "c" \in Keys
    /\ Cardinality({j \in 1..Len(resolved) : resolved[j].pkg_name = "c"}) >= 2
    /\ Visits(pkg_dict["c"]) >= 2
    /\ MakepkgRuns(pkg_dict["c"]) = 1

\* C7: get_package_recursive called with a name that is a key of pkg_dict
\* changes neither pkg_dict nor any object.
C7_ResolveIdempotent ==
    [][(Running /\ Top.fn = "get" /\ Top.at = "enter" /\ Top.pkg_name \in Keys)
        => (pkg_dict' = pkg_dict /\ heap' = heap)]_vars

\* C7 witness: a call for a registered name returned, made with arguments
\* other than those of the call that created the object
C7_Witness ==
    \E j \in 1..Len(resolved) :
        /\ resolved[j].at = "enter"
        /\ resolved[j].pkg_name \in Keys
        /\ LET first == created[pkg_dict[resolved[j].pkg_name]]
           IN  /\ first.pkg_name = resolved[j].pkg_name
               /\ first.is_make_dependency # resolved[j].is_make_dependency
               /\ first.explicit_build # resolved[j].explicit_build

\* C8: the error_info of an object, once set, never changes.
C8_ErrorMonotonic ==
    [][\A id \in Objects :
          heap[id].error_info # None => heap'[id].error_info = heap[id].error_info]_vars

\* C8 witness: a package that failed to build was reached again by the
\* build walk, with install_all_dependencies set, and the run ended
C8_Witness ==
    \E id \in Objects :
        /\ heap[id].error_info = "Failed to build package"
        /\ Visits(id) >= 2
        /\ install_all_dependencies
        /\ pc = "exit"

\* C9: build_status changes only from 0 (not yet build) to one of 1..4,
\* so at most once.
C9_BuildStatusOnce ==
    [][\A id \in Objects :
          heap'[id].build_status # heap[id].build_status =>
              /\ heap[id].build_status = NotYetBuild
              /\ heap'[id].build_status \in
                    {SuccessfullyBuild, SkippedBuild, FailedToBuild,
                     MakeDependencyFailed}]_vars

\* C9 witness: a built package was reached again by the build walk for a
\* later name of the command line
C9_Witness ==
    \E id \in Objects :
        /\ heap[id].build_status = SuccessfullyBuild
        /\ heap[id].error_info = None
        /\ Visits(id) >= 2
        /\ target = 3
        /\ pc = "exit"

\* C10 (as claimed): every name get_package_recursive was called with and
\* returned for is a key of pkg_dict, and a source is found under the name it
\* was asked for and under its own (base) name as the same object.
C10_RegistryComplete ==
    /\ \A j \in 1..Len(resolved) : resolved[j].pkg_name \in Keys
    /\ \A id \in Objects :
          IsSource(id) =>
              \A n \in {created[id].pkg_name, heap[id].name} :
                  n \in Keys /\ pkg_dict[n] = id

\* C11: top-level isolation. Once the process has exited, every name of the
\* command line was resolved by a call from main and, where it is registered,
\* visited by the build walk, and the report was reached, whatever failed for
\* the names before it.
C11_TopLevelIsolation ==
    pc = "exit" =>
        /\ \A t \in 1..Len(build_package_names) :
              /\ \E j \in 1..Len(resolved) :
                    /\ resolved[j].pkg_name = build_package_names[t]
                    /\ resolved[j].explicit_build
              /\ build_package_names[t] \in Keys
                    => Visits(pkg_dict[build_package_names[t]]) >= 1
        /\ Count(<<"Build Statistics">>) = 1

\* C12: sibling subtrees still proceed. When the build walk of a source X has
\* ended and one of X's dependencies was visited and carries an error, the
\* dependencies of X listed after it were visited by the build walk too.
C12_SiblingsProceed ==
    \A id \in processed :
        IsSource(id) =>
            LET deps == heap[id].dependencies \o heap[id].make_dependencies
            IN  \A j \in 1..Len(deps) : \A k \in (j + 1)..Len(deps) :
                    (/\ deps[j] \in Keys
                     /\ Visits(pkg_dict[deps[j]]) >= 1
                     /\ heap[pkg_dict[deps[j]]].error_info # None)
                    => /\ deps[k] \in Keys
                       /\ Visits(pkg_dict[deps[k]]) >= 1

\* C13: a source that was resolved as a build-only dependency is installed
\* after it was built or skipped, whatever install_all_dependencies is: once
\* its walk has ended with build_status 1 or 2 and it is not found installed
\* already, pacman -U was run for it.
C13_BuildOnlySourceInstalled ==
    \A id \in processed :
        (/\ IsSource(id)
         /\ created[id].is_make_dependency
         /\ heap[id].build_status \in {SuccessfullyBuild, SkippedBuild}
         /\ heap[id].installation_status # IsInstalled)
        => \E j \in 1..Len(trace) :
              /\ Len(trace[j]) = 3
              /\ trace[j][1] = "pacman -U" /\ trace[j][2] = id

\* C14: propagation of the build-only flag. An object created for an entry
\* of make_dependencies has is_make_dependency set; an object created for an
\* entry of dependencies has the value of the object whose entry it is;
\* whatever the kind of the object.
C14_BuildOnlyFlagPropagation ==
    \A id \in Objects :
        /\ created[id].edge = "make_dependencies"
              => heap[id].is_make_dependency
        /\ created[id].edge = "dependencies"
              => heap[id].is_make_dependency
                    = heap[created[id].parent].is_make_dependency

\* C15: for every source object of the registry, explicit_build is true when
\* the object was created by the call main makes for a name of the command
\* line, and false when it was created for a dependency or make dependency.
C15_ExplicitIffTopLevel ==
    \A id \in Objects :
        IsSource(id) =>
            (heap[id].explicit_build <=> created[id].edge = "command line")

\* C16: the install of a split package attempts every split name: once
\* pacman -U was run for one name of an object, it was run for each of the
\* names install() iterates over, whether or not an earlier one failed.
C16_SplitInstallIndependent ==
    \A id \in Objects :
        (IsSource(id) /\ \E n \in Range(InstallNames(heap[id])) :
                            Count(<<"pacman -U", id, n>>) >= 1)
        => \A n \in Range(InstallNames(heap[id])) :
              Count(<<"pacman -U", id, n>>) >= 1

\* the object a line of the report is about
LineObject(line) == pkg_dict[line.name]
\* a node that failed itself: its constructor, its build or its install
FailedNode(id) ==
    \/ heap[id].error_info # None
    \/ heap[id].installation_status = InstallFailed
    \/ IsSource(id) /\ heap[id].build_status = FailedToBuild

\* C17: in the report of a name, every line of an object with a failed node
\* among the objects below it reads "Dependency Failed", and the success
\* value of that report is false; in particular for a chain a -> b -> c whose
\* c failed to build.
C17_AncestorsRenderDependencyFailed ==
    \A r \in 1..Len(report) :
        \A l \in 1..Len(report[r].log) :
            LET line == report[r].log[l]
            IN  (\E d \in Descendants(LineObject(line)) : FailedNode(d))
                => /\ line.msg[1] = "Dependency Failed"
                   /\ ~report[r].success

\* a report with a line that marks its node failed or dependency failed
MarksFailure(r) ==
    \E l \in 1..Len(r.log) :
        r.log[l].msg[1] \in {"Failed", "Dependency Failed", "Failed to install"}
Raised == \E j \in 1..Len(trace) : trace[j][1] = "raise"

\* C18, as claimed: the report drives the exit code. A run that printed its
\* reports exits with 0 when no report marks a failure and with another code
\* when one does.
C18_ReportDrivesExitCode ==
    (pc = "exit" /\ ~Raised) =>
        (exit_code = 0 <=> \A r \in 1..Len(report) : ~MarksFailure(report[r]))

\* C18, amended: the exit code does not depend on the report. The process
\* exits with 0 whenever main returns, whatever the reports mark, and with 1
\* exactly when an exception no one caught ended the run.
C18_ExitCodeIgnoresReport ==
    pc = "exit" => exit_code = IF Raised THEN 1 ELSE 0

\* a run that reported a failure and exited with 0
C18_Witness ==
    /\ pc = "exit" /\ exit_code = 0
    /\ \E r \in 1..Len(report) : MarksFailure(report[r]) /\ ~report[r].success

\* the active calls of get_package_recursive
GetFrames == {j \in 1..Len(stack) : stack[j].fn = "get"}
\* the entries of dependencies + make_dependencies of the objects 1..n
RECURSIVE DependencyEntries(_)
DependencyEntries(n) ==
    IF n = 0 THEN 0
    ELSE Len(get_all_dependencies(heap[n])) + DependencyEntries(n - 1)

\* C19: resolution terminates on every recipe graph, cycles included. At most
\* one object is created per requested name and per package name, the calls
\* of get_package_recursive never nest deeper than one call per name and the
\* call the membership test ends, and there are never more calls than names on the command line plus dependency entries
\* of the objects created: every call returns.
C19_ResolutionTerminates ==
    /\ \A i, j \in Objects :
          i # j => /\ created[i].pkg_name # created[j].pkg_name
                   /\ heap[i].name # heap[j].name
    /\ Cardinality(GetFrames) <= Cardinality(DOMAIN Recipes) + 1
    /\ Len(resolved) + Cardinality(GetFrames)
          <= Len(build_package_names) + DependencyEntries(Len(heap))

\* two recipes naming each other were resolved: the call for the name that
\* closes the cycle returned at the membership test
C19_Witness ==
    /\ pc = "build" /\ stack = <<>>
    /\ Len(heap) = 2
    /\ heap[1].dependencies = <<heap[2].name>>
    /\ heap[2].make_dependencies = <<heap[1].name>>
    /\ \E j \in 1..Len(resolved) :
          resolved[j].pkg_name = heap[1].name /\ ~resolved[j].explicit_build

\* C20: post-order. Once makepkg was run for a source, every name of its
\* dependencies and make_dependencies is registered and was visited by the
\* build walk, and every source among them has a build_status other than 0.
\* Visits are never undone and no build_status returns to 0, so this holds
\* at the moment makepkg is run.
C20_PostOrder ==
    \A id \in Objects :
        MakepkgRuns(id) >= 1 =>
            \A n \in Range(heap[id].dependencies \o heap[id].make_dependencies) :
                /\ n \in Keys
                /\ Visits(pkg_dict[n]) >= 1
                /\ IsSource(pkg_dict[n])
                      => heap[pkg_dict[n]].build_status # NotYetBuild

\* makepkg was run for a source with a source among its make dependencies
C20_Witness ==
    \E id \in Objects :
        /\ MakepkgRuns(id) >= 1
        /\ \E n \in Range(heap[id].make_dependencies) :
              n \in Keys /\ IsSource(pkg_dict[n])

\* how often pacman -S was run for an object
PacmanInstalls(id) == Count(<<"pacman -S", id>>)
IsPacman(id) == heap[id].kind = PacmanPackage

\* C21: the install rule of a package of the official repositories. A step
\* runs pacman -S for it exactly when the step is a visit of the build walk
\* and the package, as the visit finds it, carries no error, is a make
\* dependency or install_all_dependencies is set, and is not installed
\* (neither found installed in its version nor installed by this run). A
\* package found installed in its version keeps installation_status 1.
C21_PacmanInstallRule ==
    [][\A id \in Objects :
          IsPacman(id) =>
             /\ (PacmanInstalls(id)' > PacmanInstalls(id))
                   <=> (/\ Visits(id)' > Visits(id)
                        /\ heap[id].error_info = None
                        /\ heap[id].is_make_dependency \/ install_all_dependencies
                        /\ heap[id].installation_status # IsInstalled
                        /\ heap[id].installation_status # SuccessfullyInstalled)
             /\ heap[id].installation_status = IsInstalled
                   => heap'[id].installation_status = IsInstalled]_vars

\* a package found installed was visited under --install-all-dependencies
\* and left alone, another one was installed
C21_Witness ==
    /\ install_all_dependencies
    /\ \E id \in Objects :
          /\ IsPacman(id) /\ Visits(id) >= 1
          /\ heap[id].installation_status = IsInstalled
          /\ PacmanInstalls(id) = 0
    /\ \E id \in Objects : IsPacman(id) /\ PacmanInstalls(id) = 1

\* the objects the report of a list of names walks over
ListedObjects(pkg_names) ==
    LET listed == {pkg_dict[n] : n \in Range(pkg_names) \cap Keys}
    IN  listed \cup UNION {Descendants(d) : d \in listed}
\* a status the report counts as a failure
FailingStatus(id) ==
    \/ FailedNode(id)
    \/ IsSource(id) /\ heap[id].build_status = MakeDependencyFailed
\* the objects of the report r: the reported name's object and all below it
ReportedObjects(r) == ListedObjects(<<r.pkg_name>>)

\* C22: the success value of the report is a conjunction. For the list of
\* dependency names of every source of a printed report,
\* print_build_log_recursive returns success true exactly when no object of
\* the list and no object below one has a failing status.
C22_SuccessIsConjunction ==
    \A r \in 1..Len(report) :
        \A id \in ReportedObjects(report[r]) :
            (IsSource(id) /\ get_all_dependencies(heap[id]) # <<>>)
            => LET deps == get_all_dependencies(heap[id])
               IN  print_build_log_recursive(deps, <<>>, FALSE, 2).success
                      <=> \A d \in ListedObjects(deps) : ~FailingStatus(d)

\* C23: status precedence in the report. The line of a source that carries
\* an error of its own reads "Failed"; a line reads "Dependency Failed" only
\* for an object without an error of its own that has a failed object below
\* it or has build_status 4.
C23_ErrorBeforeDependencyFailed ==
    \A r \in 1..Len(report) :
        \A l \in 1..Len(report[r].log) :
            LET line == report[r].log[l]
                id == LineObject(line)
            IN  /\ (IsSource(id) /\ heap[id].error_info # None)
                      => line.msg[1] = "Failed"
                /\ line.msg[1] = "Dependency Failed"
                      => /\ heap[id].error_info = None
                         /\ \/ \E d \in Descendants(id) : FailingStatus(d)
                            \/ heap[id].build_status = MakeDependencyFailed

\* how many objects the report of a list of names visits, an object counted
\* once per visit (depth: the calls still allowed)
RECURSIVE ReportVisits(_, _)
ReportVisits(pkg_names, depth) ==
    IF pkg_names = <<>> \/ depth = 0 THEN 0
    ELSE LET id == pkg_dict[Head(pkg_names)]
         IN  1 + (IF IsSource(id)
                  THEN ReportVisits(get_all_dependencies(heap[id]), depth - 1)
                  ELSE 0)
               + ReportVisits(Tail(pkg_names), depth)

\* C24: the report is complete. A printed report has exactly one line per
\* visit of its traversal, whatever the kind, build_status,
\* installation_status and error_info of the object visited.
C24_OneLinePerVisit ==
    \A r \in 1..Len(report) :
        Len(report[r].log) = ReportVisits(<<report[r].pkg_name>>, MaxDepth)

\* C25: unknown rebuild policy. With --rebuild none of 0, 1, 2, a source
\* whose build walk has ended, with no dependency in error and none rebuilt,
\* was not passed to makepkg and has build_status 2 (skipped).
C25_UnknownPolicySkips ==
    rebuild \notin {0, 1, 2} =>
        \A id \in processed :
            (/\ IsSource(id)
             /\ heap[id].error_info = None
             /\ ~SomeDependencyHasError(id)
             /\ ~SomeDependencyRebuilt(id))
            => /\ MakepkgRuns(id) = 0
               /\ heap[id].build_status = SkippedBuild

\* how often pacman -U was run for a name of an object
SourceInstalls(id) ==
    Cardinality({j \in 1..Len(trace) :
                    /\ Len(trace[j]) = 3
                    /\ trace[j][1] = "pacman -U" /\ trace[j][2] = id})

\* C26: an object carrying an error is terminal. No step runs makepkg,
\* pacman -S or pacman -U for an object that carries an error when the step
\* begins, and a step that runs pacman -U for a source finds it with
\* build_status 1 or 2.
C26_ErrorIsTerminal ==
    [][\A id \in Objects :
          /\ heap[id].error_info # None
                => /\ MakepkgRuns(id)' = MakepkgRuns(id)
                   /\ PacmanInstalls(id)' = PacmanInstalls(id)
                   /\ SourceInstalls(id)' = SourceInstalls(id)
          /\ SourceInstalls(id)' > SourceInstalls(id)
                => heap[id].build_status \in {SuccessfullyBuild, SkippedBuild}]_vars

\* a source whose makepkg failed was visited again, under
\* --install-all-dependencies, and nothing more was run for it
C26_Witness ==
    /\ install_all_dependencies
    /\ \E id \in Objects :
          /\ IsSource(id)
          /\ heap[id].build_status = FailedToBuild
          /\ heap[id].error_info # None
          /\ Visits(id) >= 2
          /\ MakepkgRuns(id) = 1 /\ SourceInstalls(id) = 0

\* C27: the build walk and the report walk terminate on every registry that
\* resolution produces, cycles included: neither runs out of stack.
C27_WalksTerminate ==
    Count(<<"raise", "RecursionError">>) = 0

\* C28: lookup safety. Every name the build walk or the report walk looks up
\* in pkg_dict is a key: no lookup raises KeyError.
C28_LookupSafety ==
    Count(<<"raise", "KeyError">>) = 0

\* C29: make dependencies are available at build time. Once makepkg was run
\* for a source, every package of the official repositories named in its
\* make_dependencies is installed: found installed or installed by this run.
C29_MakeDependenciesInstalled ==
    \A id \in Objects :
        MakepkgRuns(id) >= 1 =>
            \A n \in Range(heap[id].make_dependencies) \cap Keys :
                IsPacman(pkg_dict[n])
                => heap[pkg_dict[n]].installation_status
                      \in {IsInstalled, SuccessfullyInstalled}

\* C30: no failure leaks between siblings in the report. The line of a
\* source without error, with build_status 1 or 2 and with no failing status
\* below it, reads "Successfully build" or "Skipped" after its build_status,
\* whatever came before it in the list.
C30_NoSiblingLeak ==
    \A r \in 1..Len(report) :
        \A l \in 1..Len(report[r].log) :
            LET line == report[r].log[l]
                id == LineObject(line)
            IN  (/\ IsSource(id)
                 /\ heap[id].error_info = None
                 /\ heap[id].build_status \in {SuccessfullyBuild, SkippedBuild}
                 /\ \A d \in Descendants(id) : ~FailingStatus(d))
                => line.msg = IF heap[id].build_status = SuccessfullyBuild
                              THEN <<"Successfully build">> ELSE <<"Skipped">>

====
